---- MODULE Spec2Model ----
(***************************************************************************)
(* Model of scanner.rs: a Scanner over an immutable UTF-8 string `input`   *)
(* with a byte cursor `position`.  Strings are sequences of bytes; every   *)
(* byte of the alphabet is a whole one-byte character except the pair      *)
(* C3 A9, the two-byte encoding of U+00E9.  Offsets (position, the index   *)
(* given by char_indices, token_len, newline_pos) are byte offsets, as in  *)
(* the source.                                                             *)
(***************************************************************************)
EXTENDS Integers, Sequences, FiniteSets, TLC

\* input, position: the Scanner's fields.  op, pred, result, prev record the
\* last call: the method, the closure given to next_token, what it returned
\* and the position before it.  failed counts, per extractor, the "not
\* found" results since the position last moved (history, SpecRetry only).
VARIABLES input, position, op, pred, result, prev, failed

vars == <<input, position, op, pred, result, prev, failed>>

\* ------------------------------------------------------------- bounds
MaxLen == 4
MaxRetryLen == 3
MaxFails == 2
MaxTail == 2

\* ------------------------------------------------------------- bytes
SP == " "
NL == "\n"
MINUS == "-"
PLUS == "+"
LEAD == "C3"
CONT == "A9"

Bytes == {"1", "2", MINUS, PLUS, SP, NL, "a", LEAD, CONT}

Digits == {"0", "1", "2", "3", "4", "5", "6", "7", "8", "9"}

\* char::is_digit(10)
IsDigit(c) == c \in Digits

\* char::is_whitespace, on the characters of the alphabet
IsWhitespace(c) == c \in {SP, NL}

\* a byte that continues a multi-byte character
IsCont(b) == b = CONT

\* a &str is valid UTF-8: C3 is always followed by A9, A9 always follows C3
ValidUtf8(s) ==
    \A k \in 1..Len(s) :
        /\ (s[k] = LEAD => (k < Len(s) /\ s[k + 1] = CONT))
        /\ (s[k] = CONT => (k > 1 /\ s[k - 1] = LEAD))

InputsUpTo(m) == {s \in UNION {[1..n -> Bytes] : n \in 0..m} : ValidUtf8(s)}

Inputs == InputsUpTo(MaxLen)

\* str::is_char_boundary
IsCharBoundary(s, n) ==
    \/ n = 0
    \/ n = Len(s)
    \/ (n > 0 /\ n < Len(s) /\ ~IsCont(s[n + 1]))

\* ------------------------------------------------------------- results
None == [kind |-> "None", tok |-> <<>>, num |-> 0]
SomeTok(t) == [kind |-> "Some", tok |-> t, num |-> 0]
SomeNum(n) == [kind |-> "Num", tok |-> <<>>, num |-> n]
Panic == [kind |-> "Panic", tok |-> <<>>, num |-> 0]

\* ------------------------------------------------------------- helpers
\* get_remaining handing back the whole input
get_remaining_whole(inp, pos) == inp

\* &self.input[self.position..]
get_remaining(inp, pos) == SubSeq(inp, pos + 1, Len(inp))

\* the token handed back without the trim_start
trim_start_missing(s) == s

RECURSIVE trim_start(_)
trim_start(s) ==
    IF s # <<>> /\ IsWhitespace(Head(s)) THEN trim_start(Tail(s)) ELSE s

RECURSIVE trim_end(_)
trim_end(s) ==
    IF s # <<>> /\ IsWhitespace(s[Len(s)])
    THEN trim_end(SubSeq(s, 1, Len(s) - 1))
    ELSE s

\* remaining.find('\n'): the byte offset of the first newline, or -1
RECURSIVE find_from(_, _)
find_from(s, i) ==
    IF i >= Len(s) THEN -1
    ELSE IF s[i + 1] = NL THEN i
    ELSE find_from(s, i + 1)

find_newline(s) == find_from(s, 0)

\* ------------------------------------------------------------- parse
I32Max == 2147483647

DigitVal(c) ==
    CASE c = "0" -> 0 [] c = "1" -> 1 [] c = "2" -> 2 [] c = "3" -> 3
      [] c = "4" -> 4 [] c = "5" -> 5 [] c = "6" -> 6 [] c = "7" -> 7
      [] c = "8" -> 8 [] c = "9" -> 9 [] OTHER -> 0

\* the accumulation stopping at the digit that would overflow and handing
\* back the value read so far
RECURSIVE ParseAcc_truncating(_, _, _)
ParseAcc_truncating(ds, acc, neg) ==
    IF ds = <<>> THEN [ok |-> TRUE, val |-> acc]
    ELSE LET d == DigitVal(Head(ds))
         IN  IF ~IsDigit(Head(ds)) THEN [ok |-> FALSE, val |-> 0]
             ELSE IF ~neg
             THEN IF acc > (I32Max - d) \div 10
                  THEN [ok |-> TRUE, val |-> acc]
                  ELSE ParseAcc_truncating(Tail(ds), 10 * acc + d, neg)
             ELSE IF acc < 0 - ((I32Max - (IF d > 0 THEN d - 1 ELSE 0)) \div 10)
                  THEN [ok |-> TRUE, val |-> acc]
                  ELSE ParseAcc_truncating(Tail(ds), 10 * acc - d, neg)

\* the checked accumulation of i32::from_str: a positive number is built
\* upwards, a negative one downwards, and a step that would leave the i32
\* range is an error
RECURSIVE ParseAcc(_, _, _)
ParseAcc(ds, acc, neg) ==
    IF ds = <<>> THEN [ok |-> TRUE, val |-> acc]
    ELSE LET d == DigitVal(Head(ds))
         IN  IF ~IsDigit(Head(ds)) THEN [ok |-> FALSE, val |-> 0]
             ELSE IF ~neg
             THEN IF acc > (I32Max - d) \div 10
                  THEN [ok |-> FALSE, val |-> 0]
                  ELSE ParseAcc(Tail(ds), 10 * acc + d, neg)
             ELSE IF acc < 0 - ((I32Max - (IF d > 0 THEN d - 1 ELSE 0)) \div 10)
                  THEN [ok |-> FALSE, val |-> 0]
                  ELSE ParseAcc(Tail(ds), 10 * acc - d, neg)

\* token.parse::<i32>(): an optional '+' or '-', then one or more decimal
\* digits, the value within the i32 range; anything else is Err
parse(tok) ==
    LET signed == tok # <<>> /\ Head(tok) \in {PLUS, MINUS}
        ds == IF signed THEN Tail(tok) ELSE tok
    IN  IF ds = <<>> THEN [ok |-> FALSE, val |-> 0]
        ELSE ParseAcc(ds, 0, signed /\ Head(tok) = MINUS)

\* ------------------------------------------------------------- predicates
\* the closures handed to next_token: next_word's, next_number's, and the
\* digits-only closure of next_token's documentation
Preds == {"word", "number", "digit"}

Predicate(p, c, i) ==
    CASE p = "word" -> ~IsWhitespace(c)
      [] p = "number" -> IsDigit(c) \/ (c = MINUS /\ i = 0)
      [] OTHER -> IsDigit(c)

\* ------------------------------------------------------------- next_token
\* the for loop over remaining.char_indices(): i is the byte offset of the
\* character, continuation bytes are not visited
RECURSIVE ScanLoop(_, _, _, _, _)
ScanLoop(rem, p, i, token_len, valid_chars_count) ==
    IF i >= Len(rem)
    THEN [token_len |-> token_len, valid_chars_count |-> valid_chars_count]
    ELSE IF IsCont(rem[i + 1])
    THEN ScanLoop(rem, p, i + 1, token_len, valid_chars_count)
    ELSE IF Predicate(p, rem[i + 1], i)
    THEN ScanLoop(rem, p, i + 1, i + 1, valid_chars_count + 1)
    ELSE IF valid_chars_count > 0
    THEN [token_len |-> token_len, valid_chars_count |-> valid_chars_count]
    ELSE ScanLoop(rem, p, i + 1, i, valid_chars_count)

\* next_token giving the predicate the index within the whole input, not
\* within the remaining text
next_token_absolute_index(inp, pos, p) ==
    LET sc == ScanLoop(inp, p, pos, pos, 0)
    IN  IF sc.valid_chars_count > 0
        THEN [position |-> sc.token_len,
              result |-> IF IsCharBoundary(inp, sc.token_len)
                         THEN SomeTok(trim_start(SubSeq(inp, pos + 1, sc.token_len)))
                         ELSE Panic]
        ELSE [position |-> pos, result |-> None]

\* the position and the value next_token leaves; the position is advanced
\* before remaining[..token_len] is sliced, and the slice panics when
\* token_len is not a character boundary
next_token(inp, pos, p) ==
    LET remaining == get_remaining(inp, pos)
        sc == ScanLoop(remaining, p, 0, 0, 0)
    IN  IF sc.valid_chars_count > 0
        THEN [position |-> pos + sc.token_len,
              result |-> IF IsCharBoundary(remaining, sc.token_len)
                         THEN SomeTok(trim_start(SubSeq(remaining, 1, sc.token_len)))
                         ELSE Panic]
        ELSE [position |-> pos, result |-> None]

\* next_number resetting the position to the start of the input, not to the
\* saved position, on a parse error
next_number_restore_to_start(inp, pos) ==
    LET t == next_token(inp, pos, "number")
    IN  IF t.result.kind = "Some"
        THEN IF parse(t.result.tok).ok
             THEN [position |-> t.position, result |-> SomeNum(parse(t.result.tok).val)]
             ELSE [position |-> 0, result |-> None]
        ELSE t

\* next_number without the restore of the saved position on a parse error
next_number_no_restore(inp, pos) ==
    LET t == next_token(inp, pos, "number")
    IN  IF t.result.kind = "Some"
        THEN IF parse(t.result.tok).ok
             THEN [position |-> t.position, result |-> SomeNum(parse(t.result.tok).val)]
             ELSE [position |-> t.position, result |-> None]
        ELSE t

next_number(inp, pos) ==
    LET t == next_token(inp, pos, "number")
    IN  IF t.result.kind = "Some"
        THEN IF parse(t.result.tok).ok
             THEN [position |-> t.position, result |-> SomeNum(parse(t.result.tok).val)]
             ELSE [position |-> pos, result |-> None]
        ELSE t

next_word(inp, pos) == next_token(inp, pos, "word")

\* next_line advancing by the length of the trimmed line
next_line_advance_trimmed(inp, pos) ==
    LET remaining == get_remaining(inp, pos)
        newline_pos == find_newline(remaining)
    IN  IF newline_pos >= 0
        THEN [position |-> pos + Len(trim_end(SubSeq(remaining, 1, newline_pos))) + 1,
              result |-> SomeTok(trim_end(SubSeq(remaining, 1, newline_pos)))]
        ELSE IF remaining # <<>>
        THEN [position |-> Len(inp), result |-> SomeTok(trim_end(remaining))]
        ELSE [position |-> pos, result |-> None]

\* next_line testing the trimmed line, not the remaining text, for emptiness
next_line_blank_not_found(inp, pos) ==
    LET remaining == get_remaining(inp, pos)
        newline_pos == find_newline(remaining)
    IN  IF newline_pos >= 0
        THEN [position |-> pos + newline_pos + 1,
              result |-> SomeTok(trim_end(SubSeq(remaining, 1, newline_pos)))]
        ELSE IF trim_end(remaining) # <<>>
        THEN [position |-> Len(inp), result |-> SomeTok(trim_end(remaining))]
        ELSE [position |-> pos, result |-> None]

\* next_line adding "length + 1" in the branch without a newline as well
next_line_past_end(inp, pos) ==
    LET remaining == get_remaining(inp, pos)
        newline_pos == find_newline(remaining)
    IN  IF newline_pos >= 0
        THEN [position |-> pos + newline_pos + 1,
              result |-> SomeTok(trim_end(SubSeq(remaining, 1, newline_pos)))]
        ELSE IF remaining # <<>>
        THEN [position |-> pos + Len(remaining) + 1,
              result |-> SomeTok(trim_end(remaining))]
        ELSE [position |-> pos, result |-> None]

next_line(inp, pos) ==
    LET remaining == get_remaining(inp, pos)
        newline_pos == find_newline(remaining)
    IN  IF newline_pos >= 0
        THEN [position |-> pos + newline_pos + 1,
              result |-> SomeTok(trim_end(SubSeq(remaining, 1, newline_pos)))]
        ELSE IF remaining # <<>>
        THEN [position |-> Len(inp), result |-> SomeTok(trim_end(remaining))]
        ELSE [position |-> pos, result |-> None]

\* ------------------------------------------------------------- the scanner
Extractors == {"next_number", "next_word", "next_line"}

NoFails == [e \in Extractors |-> 0]

\* Scanner::new
Init ==
    /\ input \in Inputs
    /\ position = 0
    /\ op = "new"
    /\ pred = "none"
    /\ result = None
    /\ prev = 0
    /\ failed = NoFails

\* a panic unwinds out of the caller: the scanner takes no further call
Alive == result.kind # "Panic"

\* one call of a method.  Every method starts by slicing input at position
\* (get_remaining), which panics off a character boundary.
Apply(name, p, out) ==
    /\ Alive
    /\ op' = name
    /\ pred' = p
    /\ prev' = position
    /\ input' = input
    /\ IF IsCharBoundary(input, position)
       THEN position' = out.position /\ result' = out.result
       ELSE position' = position /\ result' = Panic

CallNextToken == \E p \in Preds : Apply("next_token", p, next_token(input, position, p))

CallNextNumber == Apply("next_number", "none", next_number(input, position))

CallNextWord == Apply("next_word", "none", next_word(input, position))

CallNextLine == Apply("next_line", "none", next_line(input, position))

CallGetRemaining ==
    Apply("get_remaining", "none",
          [position |-> position, result |-> SomeTok(get_remaining(input, position))])

Next ==
    \/ CallNextToken /\ UNCHANGED failed
    \/ CallNextNumber /\ UNCHANGED failed
    \/ CallNextWord /\ UNCHANGED failed
    \/ CallNextLine /\ UNCHANGED failed
    \/ CallGetRemaining /\ UNCHANGED failed

Spec == Init /\ [][Next]_vars

\* the same calls, with the history of "not found" results kept: a move of
\* the position clears it, a "not found" of an extractor is counted
Track ==
    LET base == IF position' # position THEN NoFails ELSE failed
    IN  failed' = IF result' = None /\ op' \in Extractors
                  THEN [base EXCEPT ![op'] = IF @ < MaxFails THEN @ + 1 ELSE @]
                  ELSE base

InitRetry ==
    /\ input \in InputsUpTo(MaxRetryLen)
    /\ position = 0
    /\ op = "new"
    /\ pred = "none"
    /\ result = None
    /\ prev = 0
    /\ failed = NoFails

NextRetry ==
    \/ CallNextToken /\ Track
    \/ CallNextNumber /\ Track
    \/ CallNextWord /\ Track
    \/ CallNextLine /\ Track
    \/ CallGetRemaining /\ Track

SpecRetry == InitRetry /\ [][NextRetry]_vars

\* a caller that picks a method (and closure) with its first call and then
\* calls that same method again and again, for as long as the scanner lives
NextRepeat ==
    \/ op = "new" /\ Next
    \/ op = "next_token" /\ Apply("next_token", pred, next_token(input, position, pred))
                         /\ UNCHANGED failed
    \/ op = "next_number" /\ CallNextNumber /\ UNCHANGED failed
    \/ op = "next_word" /\ CallNextWord /\ UNCHANGED failed
    \/ op = "next_line" /\ CallNextLine /\ UNCHANGED failed
    \/ op = "get_remaining" /\ CallGetRemaining /\ UNCHANGED failed

SpecRepeat == Init /\ [][NextRepeat]_vars /\ WF_vars(NextRepeat)

\* the same scanner over numbers at the edge of the i32 range: the first
\* nine digits of i32::MAX followed by up to MaxTail more digits, with or
\* without a sign and a leading space
Stem == <<"2", "1", "4", "7", "4", "8", "3", "6", "4">>

WideInputs ==
    {pre \o Stem \o tail :
        pre \in {<<>>, <<MINUS>>, <<SP>>, <<SP, MINUS>>},
        tail \in UNION {[1..n -> Digits] : n \in 0..MaxTail}}

InitWide ==
    /\ input \in WideInputs
    /\ position = 0
    /\ op = "new"
    /\ pred = "none"
    /\ result = None
    /\ prev = 0
    /\ failed = NoFails

SpecWide == InitWide /\ [][Next]_vars

\* ------------------------------------------------------------- claims
\* the unconsumed text before the last call, and now
Rem == SubSeq(input, prev + 1, Len(input))
Cur == SubSeq(input, position + 1, Len(input))

\* C1: the offset after every call is at least the offset before it, and
\* 0 <= offset <= length(source) in every state.
C1_OffsetMonotoneBounded ==
    /\ prev <= position
    /\ 0 <= position
    /\ position <= Len(input)

\* a next_line that consumed a last line without newline, from the middle
C1_Witness ==
    /\ op = "next_line"
    /\ prev > 0
    /\ prev < position
    /\ position = Len(input)
    /\ find_newline(Rem) = -1

\* C2: a call of next_token, next_word, next_number or next_line that
\* returns "not found" leaves the offset (hence remaining()) as it was
\* before the call, also when next_number's next_token had advanced it.
C2_NotFoundLeavesOffset ==
    (op \in {"next_token", "next_word", "next_number", "next_line"} /\ result = None)
        => (position = prev /\ Cur = Rem)

\* next_number returned "not found" after its next_token had matched a
\* token and moved the position
C2_Witness ==
    /\ op = "next_number"
    /\ result = None
    /\ next_token(input, prev, "number").result.kind = "Some"
    /\ next_token(input, prev, "number").position > prev
    /\ position = prev

\* --- the shapes of text the claims speak of, stated without the scanner
AllWs(r) == \A k \in 1..Len(r) : IsWhitespace(r[k])

\* the first maximal run of non-whitespace: its first and last index
WordStart(r) ==
    CHOOSE a \in 1..Len(r) : ~IsWhitespace(r[a]) /\ \A j \in 1..(a - 1) : IsWhitespace(r[j])

WordEnd(r) ==
    CHOOSE b \in WordStart(r)..Len(r) :
        /\ \A j \in WordStart(r)..b : ~IsWhitespace(r[j])
        /\ (b = Len(r) \/ IsWhitespace(r[b + 1]))

FirstWord(r) == SubSeq(r, WordStart(r), WordEnd(r))

\* the value of a string of decimal digits
RECURSIVE DecValue(_)
DecValue(ds) ==
    IF ds = <<>> THEN 0
    ELSE 10 * DecValue(SubSeq(ds, 1, Len(ds) - 1)) + DigitVal(ds[Len(ds)])

\* the value of an optional '-' followed by digits
IntValue(t) == IF Head(t) = MINUS THEN 0 - DecValue(Tail(t)) ELSE DecValue(t)

\* whitespace-separated integers: only digits, '-' and whitespace, every
\* '-' at the start of an integer and followed by a digit, every integer
\* of at most nine digits (so within the 32-bit range)
IsIntList(r) ==
    /\ \A k \in 1..Len(r) : IsDigit(r[k]) \/ r[k] = MINUS \/ IsWhitespace(r[k])
    /\ \A k \in 1..Len(r) :
           r[k] = MINUS => /\ (k = 1 \/ IsWhitespace(r[k - 1]))
                           /\ k < Len(r)
                           /\ IsDigit(r[k + 1])
    /\ \A k \in 1..Len(r) :
           (k + 9 <= Len(r)) => \E j \in k..(k + 9) : ~IsDigit(r[j])

\* C3: on whitespace-separated integers next_number returns the first
\* integer and leaves the offset right after its last digit; on what is
\* left after the last one (nothing, or whitespace) it returns "not
\* found".  Each call leaves such a list again, so successive calls return
\* the integers in order.
C3_IntegerList ==
    (op = "next_number" /\ IsIntList(Rem)) =>
        IF AllWs(Rem)
        THEN result = None /\ position = prev
        ELSE /\ result = SomeNum(IntValue(FirstWord(Rem)))
             /\ position = prev + WordEnd(Rem)
             /\ IsIntList(Cur)

\* a negative integer read after an earlier one and the whitespace between
C3_Witness ==
    /\ op = "next_number"
    /\ prev > 0
    /\ IsIntList(input)
    /\ Rem # <<>>
    /\ IsWhitespace(Rem[1])
    /\ result.kind = "Num"
    /\ result.num < 0
    /\ position = Len(input)

\* C4: when remaining() is empty, all whitespace, or its first
\* non-whitespace character is neither a digit nor '-', next_number
\* returns "not found" and leaves the offset unchanged.
C4_NoNumberAtCursor ==
    (op = "next_number" /\ (AllWs(Rem) \/ ~(IsDigit(Rem[WordStart(Rem)]) \/ Rem[WordStart(Rem)] = MINUS)))
        => (result = None /\ position = prev)

\* whether byte k of r belongs to a character satisfying predicate p
Sat(p, r, k) ==
    IF IsCont(r[k]) THEN Predicate(p, r[k - 1], k - 2) ELSE Predicate(p, r[k], k - 1)

RunStart(p, r) ==
    CHOOSE a \in 1..Len(r) : Sat(p, r, a) /\ \A j \in 1..(a - 1) : ~Sat(p, r, j)

RunEnd(p, r) ==
    CHOOSE b \in RunStart(p, r)..Len(r) :
        /\ \A j \in RunStart(p, r)..b : Sat(p, r, j)
        /\ (b = Len(r) \/ ~Sat(p, r, b + 1))

\* C5: a token returned by next_token is exactly the first maximal run of
\* characters satisfying the predicate; the skipped leading characters are
\* not part of it.
C5_TokenIsFirstRun ==
    (op = "next_token" /\ result.kind = "Some")
        => result.tok = SubSeq(Rem, RunStart(pred, Rem), RunEnd(pred, Rem))

\* C6: next_word returns "not found" exactly when remaining() is empty or
\* all whitespace; otherwise it returns the first maximal run of
\* non-whitespace and leaves the offset right after that run.
C6_NextWord ==
    op = "next_word" =>
        IF AllWs(Rem)
        THEN result = None /\ position = prev
        ELSE /\ result = SomeTok(FirstWord(Rem))
             /\ position = prev + WordEnd(Rem)

\* the length of the run of digits r has from index k on
DigitRun(r, k) ==
    CHOOSE n \in 0..(Len(r) - k + 1) :
        /\ \A j \in k..(k + n - 1) : IsDigit(r[j])
        /\ (k + n > Len(r) \/ ~IsDigit(r[k + n]))

\* r starts with digits, then '-', then a digit
DigitsMinusDigits(r) ==
    /\ DigitRun(r, 1) > 0
    /\ DigitRun(r, 1) + 2 <= Len(r)
    /\ r[DigitRun(r, 1) + 1] = MINUS
    /\ IsDigit(r[DigitRun(r, 1) + 2])

\* r starts with '-' and a digit
MinusDigits(r) == Len(r) >= 2 /\ r[1] = MINUS /\ IsDigit(r[2])

\* the first non-whitespace character of r is a '-' with no digit after it
LoneMinus(r) ==
    /\ ~AllWs(r)
    /\ r[WordStart(r)] = MINUS
    /\ (WordStart(r) = Len(r) \/ ~IsDigit(r[WordStart(r) + 1]))

\* C7: next_number takes a '-' only as the first character of a number.
\* On digits d1, '-', digits d2 it returns d1 and stops at the '-', and
\* called again returns -d2; on a '-' with no digit right after it, it
\* returns "not found" with the offset unchanged, and a next_word after
\* that returns the run that starts with the '-'.
C7_MinusOnlyLeads ==
    [][ /\ (op' = "next_number" /\ DigitsMinusDigits(Rem')) =>
              /\ result' = SomeNum(DecValue(SubSeq(Rem', 1, DigitRun(Rem', 1))))
              /\ position' = prev' + DigitRun(Rem', 1)
              /\ MinusDigits(Cur')
        /\ (op' = "next_number" /\ MinusDigits(Rem')) =>
              /\ result' = SomeNum(0 - DecValue(SubSeq(Rem', 2, 1 + DigitRun(Rem', 2))))
              /\ position' = prev' + 1 + DigitRun(Rem', 2)
        /\ (op' = "next_number" /\ LoneMinus(Rem')) =>
              (result' = None /\ position' = prev')
        /\ (op = "next_number" /\ LoneMinus(Rem) /\ op' = "next_word") =>
              /\ result' = SomeTok(FirstWord(Cur))
              /\ Head(result'.tok) = MINUS
      ]_vars

HasNl(r) == \E k \in 1..Len(r) : r[k] = NL

\* the index of the first newline of r, from 0
NlPos(r) == (CHOOSE k \in 1..Len(r) : r[k] = NL /\ \A j \in 1..(k - 1) : r[j] # NL) - 1

\* the length of l without its trailing whitespace
TrimmedLen(l) ==
    CHOOSE n \in 0..Len(l) :
        /\ (n = 0 \/ ~IsWhitespace(l[n]))
        /\ \A j \in (n + 1)..Len(l) : IsWhitespace(l[j])

TrimmedEnd(l) == SubSeq(l, 1, TrimmedLen(l))

\* C8: with the first newline of remaining() at index p, next_line returns
\* the p characters before it without their trailing whitespace and
\* advances the offset by exactly p + 1.
C8_LineToNewline ==
    (op = "next_line" /\ HasNl(Rem)) =>
        /\ result = SomeTok(TrimmedEnd(SubSeq(Rem, 1, NlPos(Rem))))
        /\ position = prev + NlPos(Rem) + 1

\* a line after the first, returned shorter than what was consumed
C8_Witness ==
    /\ op = "next_line"
    /\ prev > 0
    /\ HasNl(Rem)
    /\ result.kind = "Some"
    /\ Len(result.tok) > 0
    /\ Len(result.tok) < NlPos(Rem)
    /\ position = prev + NlPos(Rem) + 1

\* C9: next_line returns "not found" exactly when remaining() is empty;
\* on a non-empty remainder without newline it returns the remainder
\* without its trailing whitespace and moves the offset to the end of the
\* source (where the next call finds remaining() empty).
C9_LastLine ==
    op = "next_line" =>
        /\ (result = None <=> Rem = <<>>)
        /\ (Rem = <<>> => position = prev)
        /\ (Rem # <<>> /\ ~HasNl(Rem)) =>
              /\ result = SomeTok(TrimmedEnd(Rem))
              /\ position = Len(input)
              /\ Cur = <<>>

\* a remainder of whitespace only, without newline: an empty line is
\* returned, not "not found"
C9_Witness ==
    /\ op = "next_line"
    /\ prev > 0
    /\ Rem # <<>>
    /\ ~HasNl(Rem)
    /\ AllWs(Rem)
    /\ result = SomeTok(<<>>)
    /\ position = Len(input)

\* C10: an extractor that returned "not found" returns "not found" again,
\* leaving the offset alone, as long as the offset has not moved since;
\* and its failure changes nothing that another method's outcome depends
\* on, so a different method succeeds after it as it would have before.
C10_FailureStable ==
    [][ /\ (op' \in Extractors /\ failed[op'] > 0) =>
              (result' = None /\ position' = position)
        /\ (op' \in Extractors /\ result' = None) =>
              /\ next_number(input', position') = next_number(input, position)
              /\ next_word(input', position') = next_word(input, position)
              /\ next_line(input', position') = next_line(input, position)
      ]_vars

\* next_number has failed twice in a row at an offset where a word waits
C10_Witness ==
    /\ op = "next_number"
    /\ failed["next_number"] >= 2
    /\ failed["next_word"] = 0
    /\ position > 0
    /\ next_word(input, position).result.kind = "Some"

\* a '-' or nothing, then digits only
IsSignedDigits(t) ==
    /\ t # <<>>
    /\ \A k \in 2..Len(t) : IsDigit(t[k])
    /\ (IsDigit(t[1]) \/ (t[1] = MINUS /\ Len(t) > 1))

DigitsOf(t) == IF t[1] = MINUS THEN Tail(t) ELSE t

RECURSIVE StripZeros(_)
StripZeros(ds) == IF Len(ds) > 1 /\ Head(ds) = "0" THEN StripZeros(Tail(ds)) ELSE ds

\* a <= b for digit strings of the same length
DigitsLeq(a, b) ==
    \A k \in 1..Len(a) :
        (\A j \in 1..(k - 1) : a[j] = b[j]) => DigitVal(a[k]) <= DigitVal(b[k])

\* the written number lies in -2147483648 .. 2147483647
FitsI32(t) ==
    LET ds == StripZeros(DigitsOf(t))
        limit == Stem \o (IF t[1] = MINUS THEN <<"8">> ELSE <<"7">>)
    IN  Len(ds) < Len(limit) \/ (Len(ds) = Len(limit) /\ DigitsLeq(ds, limit))

\* C11: a run of digits, with or without a leading '-', whose value is
\* outside the 32-bit signed range makes next_number return "not found"
\* (no wrapped or cut value) with the offset as before the call; a run
\* whose value is inside the range is returned as a number.
C11_OverflowNotFound ==
    (op = "next_number" /\ ~AllWs(Rem) /\ IsSignedDigits(FirstWord(Rem))) =>
        IF FitsI32(FirstWord(Rem))
        THEN result.kind = "Num" /\ position = prev + WordEnd(Rem)
        ELSE result = None /\ position = prev

\* -2147483649, one below the least i32, after a leading space
C11_Witness ==
    /\ op = "next_number"
    /\ input = <<SP, MINUS>> \o Stem \o <<"9">>
    /\ prev = 0
    /\ result = None
    /\ position = 0

\* C12: no call aborts: every call returns a value or "not found", and the
\* offset is always on a character boundary of the source.
C12_NeverAborts ==
    /\ result.kind # "Panic"
    /\ IsCharBoundary(input, position)

\* C13: get_remaining returns exactly source[offset..] and moves nothing;
\* a successful next_word, next_number or next_line that moved the offset
\* by d leaves the old remaining() equal to its first d bytes followed by
\* the new remaining(); no call changes the source.
C13_RemainingFrame ==
    [][ /\ input' = input
        /\ (op' = "get_remaining") =>
              /\ result' = SomeTok(SubSeq(input, position + 1, Len(input)))
              /\ position' = position
        /\ (op' \in Extractors /\ result'.kind \in {"Some", "Num"}) =>
              /\ position' >= position
              /\ position' - position <= Len(Cur)
              /\ Cur = SubSeq(Cur, 1, position' - position) \o Cur'
      ]_vars

\* a number read from the middle of the source, more than one byte
\* consumed, with text left after it
C13_Witness ==
    /\ op = "next_number"
    /\ result.kind = "Num"
    /\ prev > 0
    /\ position > prev + 1
    /\ Cur # <<>>
    /\ Rem = SubSeq(Rem, 1, position - prev) \o Cur

\* C14, first part: a call that returns a value has moved the offset
\* forward by at least one byte (so a source of n bytes allows at most n
\* such calls).
C14_SuccessAdvances ==
    (op \in {"next_token", "next_word", "next_number", "next_line"}
        /\ result.kind \in {"Some", "Num"}) => position >= prev + 1

\* C14: every call that returns a value moves the offset forward, and a
\* caller repeating one of next_token, next_word, next_number, next_line
\* gets "not found" from some call on, for ever.
C14_Progress ==
    /\ [](C14_SuccessAdvances)
    /\ <>[](op = "get_remaining" \/ result = None)

\* C15: at every offset a live scanner reaches: if next_line would return
\* "not found" so would next_word, and if next_word would so would
\* next_number; and if next_number would return a number, next_word and
\* next_line would return a value too.
C15_StrengthOrder ==
    Alive =>
        /\ (next_line(input, position).result = None
               => next_word(input, position).result = None)
        /\ (next_word(input, position).result = None
               => next_number(input, position).result = None)
        /\ (next_number(input, position).result.kind = "Num"
               => /\ next_word(input, position).result.kind = "Some"
                  /\ next_line(input, position).result.kind = "Some")

\* outcome a at offset pos and outcome b of a new scanner: the same result
\* and the same advance
SameOutcome(a, pos, b) == a.result = b.result /\ a.position - pos = b.position

\* C16: what a method returns and how far it advances depend only on the
\* unconsumed text: at every offset a live scanner reaches, each method
\* does what it does on a new scanner whose source is remaining() (so any
\* two scanners with equal remaining() agree); the index the predicate
\* gets, and the '-' rule of next_number, count from the start of
\* remaining().
C16_DependsOnRemaining ==
    Alive =>
        /\ \A p \in Preds :
               SameOutcome(next_token(input, position, p), position, next_token(Cur, 0, p))
        /\ SameOutcome(next_number(input, position), position, next_number(Cur, 0))
        /\ SameOutcome(next_word(input, position), position, next_word(Cur, 0))
        /\ SameOutcome(next_line(input, position), position, next_line(Cur, 0))
        /\ get_remaining(input, position) = get_remaining(Cur, 0)

\* a negative number read at an offset past the start, its '-' at index 0
\* of remaining() and not of the source
C16_Witness ==
    /\ op = "next_number"
    /\ prev > 0
    /\ Rem # <<>>
    /\ Rem[1] = MINUS
    /\ result.kind = "Num"
    /\ result.num < 0
    /\ result = next_number(Rem, 0).result
    /\ position - prev = next_number(Rem, 0).position

====
